---- MODULE Spec2Model ----
(***************************************************************************)
(* blog4go: the rotating buffered file writer.                             *)
(*                                                                         *)
(*   BLog            (src/unnamed/part_000)  lock-protected bufio.Writer   *)
(*   baseFileWriter  (src/fileWriter.go)     write/writef, Close, daemon   *)
(*                                                                         *)
(* A byte of a record is <<rec, pos>>: rec is the number of the record in  *)
(* the order in which the calls acquired BLog.lock, pos its position in    *)
(* the record.  bufio.Writer (standard library) is modelled by its         *)
(* documented behaviour: a sticky error, Flush that keeps the bytes when   *)
(* the sink refuses them, Reset that drops bytes and error.                *)
(***************************************************************************)
EXTENDS Integers, Sequences, FiniteSets, TLC

\* ------------------------------------------------------------------ bounds
\* caller goroutines of write/writef
NumWriters == 2
\* write/writef calls of one run of Spec
MaxCalls == 2
\* write calls of one run of SeqSpec (one caller, calls in sequence)
SeqCalls == 5
\* bufio buffer size (DefaultBufferSize, os.Getpagesize() in the program)
BufSize == 6
\* capacity of logSizeChan (4096 in the program)
ChanCap == 1
\* calendar days the clock may advance
MaxDays == 1
\* longest format string of FmtSpec
MaxFmtLen == 4
\* most arguments handed to writef in FmtSpec
MaxArgs == 2
\* write calls of one run of SetSpec
SetCalls == 3
\* write calls of one run of RotSpec
RotCalls == 4
\* time rotations counted (the count stays there when there are more)
MaxTimeRotations == 2

\* ------------------------------------------------------- program constants
DefaultRotateSize == 524288000
DefaultRotateLines == 2000000
EOL == "\n"
ESCAPE == "\\"
PLACEHOLDER == "%"
\* the verbs BLog.writef recognises
Verbs == {"d", "f", "v", "b", "o", "x", "X", "c", "p", "t", "s", "T", "q", "U",
          "e", "E", "g", "G"}

VARIABLES
    \* baseFileWriter
    closed, blog, file, timeRotated, lineRotated, rotateLines, currentLines,
    sizeRotated, rotateSize, currentSize, sizeRotateTimes, logSizeChan, rotateLock,
    \* BLog: writer is "blog.writer # nil", buf/berr the bufio.Writer, sink is BLog.in
    writer, buf, berr, sink, lock,
    \* the file system: handles (os.File objects) and the files by name
    handles, disk,
    \* wall clock date and the shared TimeCache
    now, timeCache,
    \* caller goroutines: position and locals of the running call
    pc, call, callsLeft, nextRec,
    \* the daemon goroutine and the goroutine calling Close
    dpc, dloc, cpc,
    \* "none", or the goroutine whose panic ended the process
    panicked,
    \* history: bytes handed to the bufio.Writer, bytes that reached a file,
    \* accounting steps and size/line rotations of the daemon, sizes accounted
    \* whether an os.OpenFile of a rotation has failed; what the buffer held,
    \* all of it from calls that had returned, when Close was called
    accepted, delivered, accounted, rotations, sizesSeen, openFailed, bufAtClose,
    \* history: time rotations the daemon has begun (counted up to MaxTimeRotations)
    timeRotations,
    \* FmtSpec: the format string, the argument count and BLog.writef's outcome
    \* (SeqSpec: fmtIn.format is the message of every call)
    fmtIn, fmtOut

vars == <<closed, blog, file, timeRotated, lineRotated, rotateLines, currentLines,
          sizeRotated, rotateSize, currentSize, sizeRotateTimes, logSizeChan,
          rotateLock, writer, buf, berr, sink, lock, handles, disk, now, timeCache,
          pc, call, callsLeft, nextRec, dpc, dloc, cpc, panicked,
          accepted, delivered, accounted, rotations, sizesSeen, openFailed,
          bufAtClose, timeRotations, fmtIn, fmtOut>>

Writers == 1..NumWriters
None == 0
NilFile == 0
BaseName == [kind |-> "base", date |-> 0, seq |-> 0]

\* ------------------------------------------------------------ format[a:b]
Slice(s, a, b) == SubSeq(s, a + 1, b)

\* ------------------------------------------------------------------ bufio
\* The sink takes bytes only when it is an open file (os.File.Write on a closed
\* or nil file returns an error and writes nothing).
SinkOpen == sink # NilFile /\ handles[sink].open

DiskAppend(d, h, p) == [d EXCEPT ![handles[h].idx].content = @ \o p]

\* io is [buf, err, disk, out]: the bufio.Writer, the files, the bytes delivered
IO == [buf |-> buf, err |-> berr, disk |-> disk, out |-> delivered]

SinkWrite(io, p) ==
    IF SinkOpen
    THEN [io EXCEPT !.disk = DiskAppend(@, sink, p), !.out = @ \o p]
    ELSE [io EXCEPT !.err = TRUE]

\* bufio.Writer.Flush
BufFlush(io) ==
    IF io.err \/ io.buf = <<>> THEN io
    ELSE IF SinkOpen
         THEN [SinkWrite(io, io.buf) EXCEPT !.buf = <<>>]
         ELSE [io EXCEPT !.err = TRUE]

\* bufio.Writer.Write / WriteString / WriteByte of the bytes p
RECURSIVE BufWrite(_, _)
BufWrite(io, p) ==
    IF io.err THEN io
    ELSE IF Len(p) <= BufSize - Len(io.buf)
    THEN [io EXCEPT !.buf = @ \o p]
    ELSE IF io.buf = <<>>
    THEN SinkWrite(io, p)
    ELSE LET n == BufSize - Len(io.buf)
             filled == [io EXCEPT !.buf = @ \o SubSeq(p, 1, n)]
         IN  BufWrite(BufFlush(filled), SubSeq(p, n + 1, Len(p)))

\* the bytes of record rec at positions from+1 .. from+n
RecBytes(rec, from, n) == [k \in 1..n |-> <<rec, from + k>>]

\* consecutive bufio writes of lens[1], lens[2], ... bytes of record rec
RECURSIVE BufWriteAll(_, _, _, _)
BufWriteAll(io, rec, from, lens) ==
    IF lens = <<>> THEN io
    ELSE BufWriteAll(BufWrite(io, RecBytes(rec, from, Head(lens))), rec,
                     from + Head(lens), Tail(lens))

\* ------------------------------------------------------------ BLog.writef
\* What the calls write: a literal character, or an argument rendered by
\* fmt.Sprintf(spec, args[n]) (one token, counted as one byte).
Lit(c) == [k |-> "lit", c |-> c, n |-> 0, spec |-> <<>>]
Arg(n, spec) == [k |-> "arg", c |-> "", n |-> n, spec |-> spec]
Lits(s) == [i \in 1..Len(s) |-> Lit(s[i])]

\* the locals of BLog.writef before the loop; calls are the WriteString /
\* WriteByte calls made so far, size counts the body only
ScanInit == [tag |-> FALSE, tagPos |-> 0, escape |-> FALSE, n |-> 0, last |-> 0,
             calls |-> <<>>, size |-> 0, panic |-> FALSE]

\* the verb case: renders format[tagPos:i+1] with args[n]; args[n] panics
\* (index out of range) when n is not below the number of arguments
ScanVerb(st, i, format, nargs) ==
    IF st.n >= nargs
    THEN [st EXCEPT !.escape = FALSE, !.panic = TRUE]
    ELSE [st EXCEPT !.escape = FALSE,
                    !.calls = Append(@, <<Arg(st.n, Slice(format, st.tagPos, i + 1))>>),
                    !.size = @ + 1,
                    !.n = @ + 1,
                    !.last = i + 1,
                    !.tag = FALSE]

\* the ESCAPE case inside a placeholder
ScanEscape(st) ==
    [st EXCEPT !.calls = IF st.escape THEN Append(@, <<Lit(ESCAPE)>>) ELSE @,
               !.size = IF st.escape THEN @ + 1 ELSE @,
               !.escape = ~@]

\* a PLACEHOLDER outside a placeholder, not escaped
ScanOpen(st, i, format) ==
    [st EXCEPT !.tag = TRUE,
               !.tagPos = i,
               !.calls = Append(@, Lits(Slice(format, st.last, i))),
               !.size = @ + (i - st.last),
               !.escape = FALSE]

\* one iteration of the loop, at byte index i (from 0)
ScanStep(st, i, format, nargs) ==
    LET v == format[i + 1]
    IN  IF st.panic THEN st
        ELSE IF st.tag
        THEN IF v \in Verbs THEN ScanVerb(st, i, format, nargs)
             ELSE IF v = ESCAPE THEN ScanEscape(st)
             ELSE st
        ELSE IF v = PLACEHOLDER /\ ~st.escape THEN ScanOpen(st, i, format)
        ELSE st

RECURSIVE ScanFrom(_, _, _, _)
ScanFrom(st, i, format, nargs) ==
    IF i >= Len(format) THEN st
    ELSE ScanFrom(ScanStep(st, i, format, nargs), i + 1, format, nargs)

Scan(format, nargs) == ScanFrom(ScanInit, 0, format, nargs)

\* the tail written after the loop: format[last:]
ScanTail(format, nargs) == Slice(format, Scan(format, nargs).last, Len(format))

RECURSIVE Flatten(_)
Flatten(ss) == IF ss = <<>> THEN <<>> ELSE Head(ss) \o Flatten(Tail(ss))

RECURSIVE SumLens(_)
SumLens(lens) == IF lens = <<>> THEN 0 ELSE Head(lens) + SumLens(Tail(lens))

\* the time prefix and the level prefix written before the body
TimeFormat == <<"T">>
LevelPrefix == <<"P">>

\* BLog.writef as a function: the body it emits, the size it returns, and
\* whether args[n] panicked (the deferred Unlock runs either way)
Writef(format, nargs) ==
    LET st == Scan(format, nargs)
        tail == ScanTail(format, nargs)
    IN  IF st.panic
        THEN [done |-> TRUE, panic |-> TRUE, out |-> Flatten(st.calls), size |-> 0]
        ELSE [done |-> TRUE, panic |-> FALSE,
              out |-> Flatten(st.calls) \o Lits(tail) \o <<Lit(EOL)>>,
              size |-> Len(TimeFormat) + Len(LevelPrefix) + st.size + Len(tail) + 1]

\* the lengths of the bufio writes of the body of one call
BodyCalls(c) ==
    IF c.kind = "write" THEN <<Len(c.format)>>
    ELSE [i \in 1..Len(Scan(c.format, c.nargs).calls) |->
             Len(Scan(c.format, c.nargs).calls[i])]

BodyPanics(c) == c.kind = "writef" /\ Scan(c.format, c.nargs).panic

\* the length of the last WriteString before the EOL (writef: format[last:])
TailLen(c) == IF c.kind = "write" THEN 0 ELSE Len(ScanTail(c.format, c.nargs))

\* the size the BLog call returns
CallSize(c) ==
    IF c.kind = "write"
    THEN Len(TimeFormat) + Len(LevelPrefix) + Len(c.format) + 1
    ELSE Writef(c.format, c.nargs).size

\* a panic that nothing recovers ends the process
Running == panicked = "none"

\* ------------------------------------------------------------------ frames
cfgVars == <<timeRotated, lineRotated, rotateLines, sizeRotated, rotateSize>>
rotVars == <<currentLines, currentSize, sizeRotateTimes>>
clockVars == <<now, timeCache>>
fmtVars == <<fmtIn, fmtOut>>
closeHist == <<bufAtClose>>
daemonVars == <<dpc, dloc, rotateLock>>
callerVars == <<pc, call, callsLeft, nextRec>>
histVars == <<accounted, rotations, sizesSeen, timeRotations>>
openVars == <<disk, handles, openFailed>>
bufVars == <<buf, berr, disk, delivered>>

\* the locals of a caller outside a call; format and args are dead once the
\* BLog call is over
NoCall == [kind |-> "write", format |-> <<>>, nargs |-> 0, rec |-> 0, pos |-> 0,
           size |-> 0, panicking |-> FALSE]
Returned(size, panicking) == [NoCall EXCEPT !.size = size, !.panicking = panicking]

ApplyIO(io) ==
    /\ buf' = io.buf
    /\ berr' = io.err
    /\ disk' = io.disk
    /\ delivered' = io.out

\* a blog.lock that never makes anybody wait
LockIgnored == TRUE

\* blog.lock.Lock() goes on only while nobody holds blog.lock
LockFree == lock = None

\* ------------------------------------------------ baseFileWriter.write/writef
\* entry of write/writef: size = 0, the deferred send is registered, closed is read
WriteBegin(w, c) ==
    /\ Running
    /\ pc[w] = "idle"
    /\ callsLeft > 0
    /\ callsLeft' = callsLeft - 1
    /\ call' = [call EXCEPT ![w] = IF closed THEN NoCall
                                    ELSE [NoCall EXCEPT !.kind = c.kind,
                                                        !.format = c.format,
                                                        !.nargs = c.nargs]]
    /\ pc' = [pc EXCEPT ![w] = IF closed THEN "defer" ELSE "enter"]
    /\ UNCHANGED <<closed, blog, file, cfgVars, rotVars, logSizeChan, writer, bufVars,
                   sink, lock, handles, clockVars, nextRec, daemonVars, cpc, panicked,
                   accepted, histVars, fmtVars, openFailed, closeHist>>

\* writer.blog.write(...) / writer.blog.writef(...): a nil writer.blog or a nil
\* blog.writer panics; otherwise blog.lock is taken and the time prefix written
BLogEnter(w) ==
    /\ Running
    /\ pc[w] = "enter"
    /\ IF ~blog
       THEN /\ call' = [call EXCEPT ![w] = Returned(0, TRUE)]
            /\ pc' = [pc EXCEPT ![w] = "defer"]
            /\ UNCHANGED <<lock, nextRec, bufVars, accepted>>
       ELSE /\ LockFree
            /\ IF ~writer
               THEN /\ call' = [call EXCEPT ![w] = Returned(0, TRUE)]
                    /\ pc' = [pc EXCEPT ![w] = "defer"]
                    /\ UNCHANGED <<lock, nextRec, bufVars, accepted>>
               ELSE LET rec == nextRec + 1
                        p == RecBytes(rec, 0, Len(TimeFormat))
                    IN  /\ lock' = w
                        /\ nextRec' = rec
                        /\ ApplyIO(BufWrite(IO, p))
                        /\ accepted' = accepted \o p
                        /\ call' = [call EXCEPT ![w].rec = rec, ![w].pos = Len(p)]
                        /\ pc' = [pc EXCEPT ![w] = "prefix"]
    /\ UNCHANGED <<closed, blog, file, cfgVars, rotVars, logSizeChan, writer, sink,
                   handles, clockVars, callsLeft, daemonVars, cpc, panicked, histVars,
                   fmtVars, openFailed, closeHist>>

\* blog.writer.WriteString(level.prefix())
BLogPrefix(w) ==
    /\ Running
    /\ pc[w] = "prefix"
    /\ LET p == RecBytes(call[w].rec, call[w].pos, Len(LevelPrefix))
       IN  /\ ApplyIO(BufWrite(IO, p))
           /\ accepted' = accepted \o p
           /\ call' = [call EXCEPT ![w].pos = @ + Len(p)]
    /\ pc' = [pc EXCEPT ![w] = "body"]
    /\ UNCHANGED <<closed, blog, file, cfgVars, rotVars, logSizeChan, writer, sink, lock,
                   handles, clockVars, callsLeft, nextRec, daemonVars, cpc, panicked,
                   histVars, fmtVars, openFailed, closeHist>>

\* write: WriteString(format).  writef: the scanning loop; args[n] out of range
\* panics, the deferred Unlock releases blog.lock
BLogBody(w) ==
    /\ Running
    /\ pc[w] = "body"
    /\ LET lens == BodyCalls(call[w])
           n == SumLens(lens)
       IN  /\ ApplyIO(BufWriteAll(IO, call[w].rec, call[w].pos, lens))
           /\ accepted' = accepted \o RecBytes(call[w].rec, call[w].pos, n)
           /\ IF BodyPanics(call[w])
              THEN /\ call' = [call EXCEPT ![w] = Returned(0, TRUE)]
                   /\ lock' = None
                   /\ pc' = [pc EXCEPT ![w] = "defer"]
              ELSE /\ call' = [call EXCEPT ![w].pos = @ + n]
                   /\ lock' = lock
                   /\ pc' = [pc EXCEPT ![w] = "eol"]
    /\ UNCHANGED <<closed, blog, file, cfgVars, rotVars, logSizeChan, writer, sink,
                   handles, clockVars, callsLeft, nextRec, daemonVars, cpc, panicked,
                   histVars, fmtVars, openFailed, closeHist>>

\* writef: WriteString(format[last:]); both: WriteByte(EOL), size, Unlock, return
BLogEOL(w) ==
    /\ Running
    /\ pc[w] = "eol"
    /\ LET lens == <<TailLen(call[w]), 1>>
           n == TailLen(call[w]) + 1
       IN  /\ ApplyIO(BufWriteAll(IO, call[w].rec, call[w].pos, lens))
           /\ accepted' = accepted \o RecBytes(call[w].rec, call[w].pos, n)
           /\ call' = [call EXCEPT ![w] = Returned(CallSize(call[w]), FALSE)]
    /\ lock' = None
    /\ pc' = [pc EXCEPT ![w] = "defer"]
    /\ UNCHANGED <<closed, blog, file, cfgVars, rotVars, logSizeChan, writer, sink,
                   handles, clockVars, callsLeft, nextRec, daemonVars, cpc, panicked,
                   histVars, fmtVars, openFailed, closeHist>>

\* the deferred function: writer.logSizeChan <- size, which waits while the
\* channel is full; a panic of the call goes on after it
WriteSend(w) ==
    /\ Running
    /\ pc[w] = "defer"
    /\ sizeRotated \/ lineRotated
    /\ Len(logSizeChan) < ChanCap
    /\ logSizeChan' = Append(logSizeChan, call[w].size)
    /\ pc' = [pc EXCEPT ![w] = "idle"]
    /\ call' = [call EXCEPT ![w] = NoCall]
    /\ panicked' = IF call[w].panicking THEN "caller" ELSE panicked
    /\ UNCHANGED <<closed, blog, file, cfgVars, rotVars, writer, bufVars, sink, lock,
                   handles, clockVars, callsLeft, nextRec, daemonVars, cpc,
                   accepted, histVars, fmtVars, openFailed, closeHist>>

\* the deferred function when neither size nor line rotation is on
WriteNoSend(w) ==
    /\ Running
    /\ pc[w] = "defer"
    /\ ~(sizeRotated \/ lineRotated)
    /\ pc' = [pc EXCEPT ![w] = "idle"]
    /\ call' = [call EXCEPT ![w] = NoCall]
    /\ panicked' = IF call[w].panicking THEN "caller" ELSE panicked
    /\ UNCHANGED <<closed, blog, file, cfgVars, rotVars, logSizeChan, writer, bufVars,
                   sink, lock, handles, clockVars, callsLeft, nextRec, daemonVars,
                   cpc, accepted, histVars, fmtVars, openFailed, closeHist>>

\* ------------------------------------------------------------- os.OpenFile
\* os.File objects: writer.file is object 1 (or nil), the file a rotation has
\* just opened is object 2 until writer.file = file makes it object 1
FreeSlot == 2
NoHandle == [idx |-> 0, open |-> FALSE]

FileIndex(name) ==
    IF \E i \in 1..Len(disk) : disk[i].name = name
    THEN CHOOSE i \in 1..Len(disk) : disk[i].name = name
    ELSE Len(disk) + 1

\* os.OpenFile(name, O_WRONLY|O_APPEND|O_CREATE): ok is whether the system call
\* succeeds; the error is dropped and a failed open leaves file = nil
OpenFile(name, ok) ==
    IF ok
    THEN /\ disk' = IF FileIndex(name) > Len(disk)
                    THEN Append(disk, [name |-> name, content |-> <<>>])
                    ELSE disk
         /\ handles' = [handles EXCEPT ![FreeSlot] = [idx |-> FileIndex(name),
                                                       open |-> TRUE]]
         /\ dloc' = [dloc EXCEPT !.newFile = FreeSlot]
         /\ UNCHANGED openFailed
    ELSE /\ UNCHANGED <<disk, handles>>
         /\ dloc' = [dloc EXCEPT !.newFile = NilFile]
         /\ openFailed' = TRUE

\* ----------------------------------------------------- baseFileWriter.daemon
\* case <-f: the closed check
DaemonFlushTick ==
    /\ Running
    /\ dpc = "select"
    /\ dpc' = IF closed THEN "exited" ELSE "flush"
    /\ UNCHANGED <<closed, blog, file, cfgVars, rotVars, logSizeChan, rotateLock, writer,
                   bufVars, sink, lock, handles, clockVars, callerVars, dloc, cpc,
                   panicked, accepted, histVars, fmtVars, openFailed, closeHist>>

\* writer.blog.flush(): BLog.flush under blog.lock
DaemonFlush ==
    /\ Running
    /\ dpc = "flush"
    /\ IF ~blog
       THEN /\ panicked' = "daemon"
            /\ UNCHANGED <<bufVars, dpc>>
       ELSE /\ LockFree
            /\ IF ~writer
               THEN /\ panicked' = "daemon"
                    /\ UNCHANGED <<bufVars, dpc>>
               ELSE /\ ApplyIO(BufFlush(IO))
                    /\ dpc' = "select"
                    /\ UNCHANGED panicked
    /\ UNCHANGED <<closed, blog, file, cfgVars, rotVars, logSizeChan, rotateLock, writer,
                   sink, lock, handles, clockVars, callerVars, dloc, cpc, accepted,
                   histVars, fmtVars, openFailed, closeHist>>

\* case <-t: the closed check
DaemonTimeTick ==
    /\ Running
    /\ dpc = "select"
    /\ dpc' = IF closed THEN "exited" ELSE "tcheck"
    /\ UNCHANGED <<closed, blog, file, cfgVars, rotVars, logSizeChan, rotateLock, writer,
                   bufVars, sink, lock, handles, clockVars, callerVars, dloc, cpc,
                   panicked, accepted, histVars, fmtVars, openFailed, closeHist>>

\* rotateLock.Lock(); date := time.Now(); the test of the time rotation, which
\* sets sizeRotateTimes = 0; without a rotation rotateLock.Unlock()
DaemonTimeCheck ==
    /\ Running
    /\ dpc = "tcheck"
    /\ IF timeRotated /\ now # timeCache.date
       THEN /\ sizeRotateTimes' = 0
            /\ rotateLock' = TRUE
            /\ dpc' = "topen"
            /\ timeRotations' = IF timeRotations < MaxTimeRotations
                                THEN timeRotations + 1 ELSE timeRotations
       ELSE /\ UNCHANGED <<sizeRotateTimes, rotateLock, timeRotations>>
            /\ dpc' = "select"
    /\ UNCHANGED <<closed, blog, file, cfgVars, currentLines, currentSize, logSizeChan,
                   writer, bufVars, sink, lock, handles, clockVars, callerVars, dloc,
                   cpc, panicked, accepted, accounted, rotations, sizesSeen, fmtVars,
                   openFailed, closeHist>>

\* fileName := <base>.<timeCache.dateYesterday>; file, _ := os.OpenFile(fileName)
DaemonTimeOpen(ok) ==
    /\ Running
    /\ dpc = "topen"
    /\ OpenFile([kind |-> "date", date |-> timeCache.dateYesterday, seq |-> 0], ok)
    /\ dpc' = "close"
    /\ UNCHANGED <<closed, blog, file, cfgVars, rotVars, logSizeChan, rotateLock, writer,
                   buf, berr, delivered, sink, lock, clockVars, callerVars, cpc,
                   panicked, accepted, histVars, fmtVars, closeHist>>

\* case size := <-writer.logSizeChan: the closed check and the test that a size
\* or line rotation is on
DaemonRecv ==
    /\ Running
    /\ dpc = "select"
    /\ logSizeChan # <<>>
    /\ logSizeChan' = Tail(logSizeChan)
    /\ dpc' = IF closed THEN "exited"
              ELSE IF ~sizeRotated /\ ~lineRotated THEN "select"
              ELSE "account"
    /\ dloc' = [dloc EXCEPT !.size = IF dpc' = "account" THEN Head(logSizeChan) ELSE 0]
    /\ UNCHANGED <<closed, blog, file, cfgVars, rotVars, rotateLock, writer, bufVars,
                   sink, lock, handles, clockVars, callerVars, cpc, panicked, accepted,
                   histVars, fmtVars, openFailed, closeHist>>

\* variants of the test that also rotate when a counter is equal to its
\* threshold
RotateNeededLinesGE(size, lines) ==
    \/ sizeRotated /\ size > rotateSize
    \/ lineRotated /\ lines >= rotateLines
RotateNeededSizeGE(size, lines) ==
    \/ sizeRotated /\ size >= rotateSize
    \/ lineRotated /\ lines > rotateLines

\* the test of the size/line rotation on the counters after the accounting
RotateNeeded(size, lines) ==
    \/ sizeRotated /\ size > rotateSize
    \/ lineRotated /\ lines > rotateLines

\* the name of the file a size/line rotation opens
SizeFileName(times) ==
    IF timeRotated
    THEN [kind |-> "dateseq", date |-> timeCache.date, seq |-> times + 1]
    ELSE [kind |-> "seq", date |-> 0, seq |-> times + 1]

\* rotateLock.Lock(); currentSize += size; currentLines++; on a rotation
\* sizeRotateTimes++, both counters 0 and the new file is opened; without one
\* rotateLock.Unlock()
DaemonAccount(ok) ==
    /\ Running
    /\ dpc = "account"
    /\ accounted' = accounted + 1
    /\ sizesSeen' = sizesSeen \cup {dloc.size}
    /\ IF RotateNeeded(currentSize + dloc.size, currentLines + 1)
       THEN /\ sizeRotateTimes' = sizeRotateTimes + 1
            /\ currentSize' = 0
            /\ currentLines' = 0
            /\ OpenFile(SizeFileName(sizeRotateTimes + 1), ok)
            /\ rotations' = rotations + 1
            /\ rotateLock' = TRUE
            /\ dpc' = "close"
       ELSE /\ currentSize' = currentSize + dloc.size
            /\ currentLines' = currentLines + 1
            /\ ok
            /\ dloc' = [dloc EXCEPT !.size = 0]
            /\ UNCHANGED <<sizeRotateTimes, openVars, rotations, rotateLock>>
            /\ dpc' = "select"
    /\ UNCHANGED <<closed, blog, file, cfgVars, logSizeChan, writer, buf, berr,
                   delivered, sink, lock, clockVars, callerVars, cpc, panicked,
                   accepted, fmtVars, closeHist, timeRotations>>

\* writer.file.Close(): on a nil file it returns an error and does nothing
DaemonCloseOld ==
    /\ Running
    /\ dpc = "close"
    /\ handles' = IF file = NilFile THEN handles
                  ELSE [handles EXCEPT ![file].open = FALSE]
    /\ dpc' = "reset"
    /\ UNCHANGED <<closed, blog, file, cfgVars, rotVars, logSizeChan, rotateLock, writer,
                   bufVars, sink, lock, clockVars, callerVars, dloc, cpc, panicked,
                   accepted, histVars, fmtVars, openFailed, closeHist>>

\* a resetFile that swaps the sink under the buffer, which keeps its bytes
ResetFileKeepsBuffer(in) ==
    /\ sink' = in
    /\ UNCHANGED bufVars

\* BLog.resetFile(in): under blog.lock, Flush to the old sink, blog.in = in,
\* blog.writer.Reset(in), which drops what Flush left in the buffer
ResetFile(in) ==
    LET io == BufFlush(IO)
    IN  /\ disk' = io.disk
        /\ delivered' = io.out
        /\ sink' = in
        /\ buf' = <<>>
        /\ berr' = FALSE

\* a rotation that ends without rotateLock.Unlock()
DaemonResetKeepsLock ==
    /\ Running
    /\ dpc = "reset"
    /\ IF ~blog
       THEN /\ panicked' = "daemon"
            /\ UNCHANGED <<bufVars, sink, file, handles, daemonVars>>
       ELSE /\ LockFree
            /\ IF ~writer
               THEN /\ panicked' = "daemon"
                    /\ UNCHANGED <<bufVars, sink, file, handles, daemonVars>>
               ELSE /\ ResetFile(IF dloc.newFile = NilFile THEN NilFile ELSE 1)
                    /\ file' = IF dloc.newFile = NilFile THEN NilFile ELSE 1
                    /\ handles' = IF dloc.newFile = NilFile
                                  THEN <<NoHandle, NoHandle>>
                                  ELSE <<handles[dloc.newFile], NoHandle>>
                    /\ dloc' = [size |-> 0, newFile |-> NilFile]
                    /\ rotateLock' = TRUE
                    /\ dpc' = "select"
                    /\ UNCHANGED panicked
    /\ UNCHANGED <<closed, blog, cfgVars, rotVars, logSizeChan, writer, lock,
                   clockVars, callerVars, cpc, accepted, histVars, fmtVars, openFailed, closeHist>>

\* writer.blog.resetFile(file); writer.file = file; rotateLock.Unlock()
DaemonReset ==
    /\ Running
    /\ dpc = "reset"
    /\ IF ~blog
       THEN /\ panicked' = "daemon"
            /\ UNCHANGED <<bufVars, sink, file, handles, daemonVars>>
       ELSE /\ LockFree
            /\ IF ~writer
               THEN /\ panicked' = "daemon"
                    /\ UNCHANGED <<bufVars, sink, file, handles, daemonVars>>
               ELSE /\ ResetFile(IF dloc.newFile = NilFile THEN NilFile ELSE 1)
                    /\ file' = IF dloc.newFile = NilFile THEN NilFile ELSE 1
                    /\ handles' = IF dloc.newFile = NilFile
                                  THEN <<NoHandle, NoHandle>>
                                  ELSE <<handles[dloc.newFile], NoHandle>>
                    /\ dloc' = [size |-> 0, newFile |-> NilFile]
                    /\ rotateLock' = FALSE
                    /\ dpc' = "select"
                    /\ UNCHANGED panicked
    /\ UNCHANGED <<closed, blog, cfgVars, rotVars, logSizeChan, writer, lock,
                   clockVars, callerVars, cpc, accepted, histVars, fmtVars, openFailed, closeHist>>

\* ------------------------------------------------------ baseFileWriter.Close
\* if writer.closed { return }; the caller calls Close a first time (cpc =
\* "idle") and, when that call has returned, once more ("again": the
\* repeated call has returned at the closed check)
CloseBegin ==
    /\ Running
    /\ cpc \in {"idle", "done"}
    /\ cpc' = IF ~closed THEN "blog" ELSE IF cpc = "idle" THEN "done" ELSE "again"
    /\ bufAtClose' = IF cpc # "idle" THEN bufAtClose
                     ELSE IF \A w \in Writers : pc[w] = "idle" THEN buf ELSE <<>>
    /\ UNCHANGED <<closed, blog, file, cfgVars, rotVars, logSizeChan, writer, bufVars,
                   sink, lock, handles, clockVars, callerVars, daemonVars, panicked,
                   accepted, histVars, fmtVars, openFailed>>

\* writer.blog.Close(): BLog.Close under blog.lock: Flush, blog.writer = nil
CloseBLog ==
    /\ Running
    /\ cpc = "blog"
    /\ IF ~blog
       THEN /\ panicked' = "closer"
            /\ UNCHANGED <<bufVars, writer, cpc>>
       ELSE /\ LockFree
            /\ IF ~writer
               THEN /\ panicked' = "closer"
                    /\ UNCHANGED <<bufVars, writer, cpc>>
               ELSE /\ disk' = BufFlush(IO).disk
                    /\ delivered' = BufFlush(IO).out
                    /\ buf' = <<>>
                    /\ berr' = FALSE
                    /\ writer' = FALSE
                    /\ cpc' = "nil"
                    /\ UNCHANGED panicked
    /\ UNCHANGED <<closed, blog, file, cfgVars, rotVars, logSizeChan, sink, lock,
                   handles, clockVars, callerVars, daemonVars, accepted, histVars,
                   fmtVars, openFailed, closeHist>>

\* writer.blog = nil
CloseNilBLog ==
    /\ Running
    /\ cpc = "nil"
    /\ blog' = FALSE
    /\ cpc' = "flag"
    /\ UNCHANGED <<closed, file, cfgVars, rotVars, logSizeChan, writer, bufVars, sink,
                   lock, handles, clockVars, callerVars, daemonVars, panicked, accepted,
                   histVars, fmtVars, openFailed, closeHist>>

\* a Close that returns without setting writer.closed
CloseFlagForgets ==
    /\ Running
    /\ cpc = "flag"
    /\ cpc' = "done"
    /\ UNCHANGED <<closed, blog, file, cfgVars, rotVars, logSizeChan, writer, bufVars,
                   sink, lock, handles, clockVars, callerVars, daemonVars, panicked,
                   accepted, histVars, fmtVars, openFailed, closeHist>>

\* writer.closed = true; return
CloseFlag ==
    /\ Running
    /\ cpc = "flag"
    /\ closed' = TRUE
    /\ cpc' = "done"
    /\ UNCHANGED <<blog, file, cfgVars, rotVars, logSizeChan, writer, bufVars, sink,
                   lock, handles, clockVars, callerVars, daemonVars, panicked, accepted,
                   histVars, fmtVars, openFailed, closeHist>>

\* ------------------------------------------------------------ the setters
\* what a setter leaves alone
setterFrame == <<closed, blog, file, rotVars, logSizeChan, writer, bufVars, sink, lock,
                 handles, clockVars, callerVars, daemonVars, cpc, panicked, accepted,
                 histVars, fmtVars, openFailed, closeHist>>

\* SetTimeRotated(timeRotated)
SetTimeRotated(t) ==
    /\ Running
    /\ timeRotated' = t
    /\ UNCHANGED <<lineRotated, rotateLines, sizeRotated, rotateSize, setterFrame>>

\* a SetRotateSize that also starts the accumulated size again
SetRotateSizeResets(size) ==
    /\ Running
    /\ sizeRotated' = (size > 0)
    /\ rotateSize' = IF size > 0 THEN size ELSE rotateSize
    /\ currentSize' = 0
    /\ UNCHANGED <<timeRotated, lineRotated, rotateLines, closed, blog, file,
                   currentLines, sizeRotateTimes, logSizeChan, writer, bufVars, sink,
                   lock, handles, clockVars, callerVars, daemonVars, cpc, panicked,
                   accepted, histVars, fmtVars, openFailed, closeHist>>

\* SetRotateSize(rotateSize): a positive size turns size rotation on with that
\* threshold, any other turns it off and keeps the threshold
SetRotateSize(size) ==
    /\ Running
    /\ sizeRotated' = (size > 0)
    /\ rotateSize' = IF size > 0 THEN size ELSE rotateSize
    /\ UNCHANGED <<timeRotated, lineRotated, rotateLines, setterFrame>>

\* SetRotateLines(rotateLines), likewise
SetRotateLines(lines) ==
    /\ Running
    /\ lineRotated' = (lines > 0)
    /\ rotateLines' = IF lines > 0 THEN lines ELSE rotateLines
    /\ UNCHANGED <<timeRotated, sizeRotated, rotateSize, setterFrame>>

\* ------------------------------------------------------ baseFileWriter.flush
\* writer.blog.flush() called by the application while the buffer holds bytes
Flush ==
    /\ Running
    /\ buf # <<>>
    /\ blog /\ writer
    /\ LockFree
    /\ ApplyIO(BufFlush(IO))
    /\ UNCHANGED <<closed, blog, file, cfgVars, rotVars, logSizeChan, writer, sink, lock,
                   handles, clockVars, callerVars, daemonVars, cpc, panicked, accepted,
                   histVars, fmtVars, openFailed, closeHist>>

\* ------------------------------------------------------------------- clock
\* midnight: the calendar date of time.Now() advances
DayAdvance ==
    /\ Running
    /\ now < 1 + MaxDays
    /\ now' = now + 1
    /\ UNCHANGED <<closed, blog, file, cfgVars, rotVars, logSizeChan, writer, bufVars,
                   sink, lock, handles, timeCache, callerVars, daemonVars, cpc, panicked,
                   accepted, histVars, fmtVars, openFailed, closeHist>>

\* the refresh of the shared TimeCache: on a new date the old one becomes
\* dateYesterday
TimeCacheRefresh ==
    /\ Running
    /\ now # timeCache.date
    /\ timeCache' = [date |-> now, dateYesterday |-> timeCache.date]
    /\ UNCHANGED <<closed, blog, file, cfgVars, rotVars, logSizeChan, writer, bufVars,
                   sink, lock, handles, now, callerVars, daemonVars, cpc, panicked,
                   accepted, histVars, fmtVars, openFailed, closeHist>>

\* --------------------------------------------------- BLog.writef on its own
\* one call of BLog.writef(level, format, args...) with blog.lock free before
\* and, by the deferred Unlock, after
BLogWritef ==
    /\ ~fmtOut.done
    /\ LockFree
    /\ fmtOut' = Writef(fmtIn.format, fmtIn.nargs)
    /\ UNCHANGED <<closed, blog, file, cfgVars, rotVars, logSizeChan, writer, bufVars,
                   sink, lock, handles, clockVars, callerVars, daemonVars, cpc, panicked,
                   accepted, histVars, fmtIn, openFailed, closeHist>>

\* ------------------------------------------------------------------- Init
\* the thresholds a run configures (SetRotateSize, SetRotateLines)
SizeThresholds == {5}
LineThresholds == {1}
\* SeqSpec: <<rotateSize, rotateLines>> as set by the setters, 0 for "off"
SeqPolicies == {<<0, 0>>, <<8, 2>>}
                   \cup {<<0, l>> : l \in 1..3}
                   \cup {<<t, 0>> : t \in {3, 4, 5, 8, 9}}

\* the calls of the callers of Spec: a plain message, and a format with its
\* argument (FmtSpec runs BLog.writef on every format and argument count)
Calls == {[kind |-> "write", format |-> <<"a">>, nargs |-> 0],
          [kind |-> "writef", format |-> <<"%", "d">>, nargs |-> 1]}
\* SeqSpec: the message the caller writes again and again
SeqMessages == {<<"a">>, <<"a", "a">>}

\* the characters of the format strings of FmtSpec
Chars == {PLACEHOLDER, ESCAPE, "d", "a"}
RECURSIVE Strings(_)
Strings(n) ==
    IF n = 0 THEN {<<>>}
    ELSE Strings(n - 1) \cup {Append(s, c) : s \in Strings(n - 1), c \in Chars}

NoOut == [done |-> FALSE, panic |-> FALSE, out |-> <<>>, size |-> 0]

\* newBaseFileWriter: the file is open, NewBLog(file), the daemon is started
InitWriter ==
    /\ closed = FALSE
    /\ blog = TRUE
    /\ writer = TRUE
    /\ buf = <<>>
    /\ berr = FALSE
    /\ lock = None
    /\ rotateLock = FALSE
    /\ handles = <<[idx |-> 1, open |-> TRUE], NoHandle>>
    /\ disk = <<[name |-> BaseName, content |-> <<>>]>>
    /\ file = 1
    /\ sink = 1
    /\ currentSize = 0
    /\ currentLines = 0
    /\ sizeRotateTimes = 0
    /\ logSizeChan = <<>>
    /\ now = 1
    /\ timeCache = [date |-> 1, dateYesterday |-> 0]
    /\ pc = [w \in Writers |-> "idle"]
    /\ call = [w \in Writers |-> NoCall]
    /\ nextRec = 0
    /\ dpc = "select"
    /\ dloc = [size |-> 0, newFile |-> NilFile]
    /\ cpc = "idle"
    /\ panicked = "none"
    /\ accepted = <<>>
    /\ delivered = <<>>
    /\ accounted = 0
    /\ rotations = 0
    /\ sizesSeen = {}
    /\ openFailed = FALSE
    /\ bufAtClose = <<>>
    /\ timeRotations = 0

\* the rotation policy as SetTimeRotated, SetRotateSize and SetRotateLines
\* leave it when they are called with t, size and lines
Policy(t, size, lines) ==
    /\ timeRotated = t
    /\ sizeRotated = (size > 0)
    /\ rotateSize = IF size > 0 THEN size ELSE DefaultRotateSize
    /\ lineRotated = (lines > 0)
    /\ rotateLines = IF lines > 0 THEN lines ELSE DefaultRotateLines

Init ==
    /\ InitWriter
    /\ \E t \in BOOLEAN, size \in {0} \cup SizeThresholds, lines \in {0} \cup LineThresholds :
          Policy(t, size, lines)
    /\ callsLeft = MaxCalls
    /\ fmtIn = [format |-> <<>>, nargs |-> 0]
    /\ fmtOut = [NoOut EXCEPT !.done = TRUE]

Caller(w) ==
    \/ \E c \in Calls : WriteBegin(w, c)
    \/ BLogEnter(w)
    \/ BLogPrefix(w)
    \/ BLogBody(w)
    \/ BLogEOL(w)
    \/ WriteSend(w)
    \/ WriteNoSend(w)

Daemon ==
    \/ DaemonFlushTick
    \/ DaemonFlush
    \/ DaemonTimeTick
    \/ DaemonTimeCheck
    \/ \E ok \in BOOLEAN : DaemonTimeOpen(ok)
    \/ DaemonRecv
    \/ \E ok \in BOOLEAN : DaemonAccount(ok)
    \/ DaemonCloseOld
    \/ DaemonReset

Closer ==
    \/ CloseBegin
    \/ CloseBLog
    \/ CloseNilBLog
    \/ CloseFlag

Clock ==
    \/ DayAdvance
    \/ TimeCacheRefresh

Next ==
    \/ \E w \in Writers : Caller(w)
    \/ Daemon
    \/ Closer
    \/ Flush
    \/ Clock

Spec == Init /\ [][Next]_vars

\* calls in sequence by one caller, size and line rotation, no Close, the
\* date does not change
InitSeq ==
    /\ InitWriter
    /\ \E p \in SeqPolicies : Policy(FALSE, p[1], p[2])
    /\ callsLeft = SeqCalls
    /\ fmtIn \in [format : SeqMessages, nargs : {0}]
    /\ fmtOut = [NoOut EXCEPT !.done = TRUE]

NextSeq ==
    \/ WriteBegin(1, [kind |-> "write", format |-> fmtIn.format, nargs |-> 0])
    \/ BLogEnter(1)
    \/ BLogPrefix(1)
    \/ BLogBody(1)
    \/ BLogEOL(1)
    \/ WriteSend(1)
    \/ WriteNoSend(1)
    \/ DaemonFlushTick
    \/ DaemonFlush
    \/ DaemonRecv
    \/ \E ok \in BOOLEAN : DaemonAccount(ok)
    \/ DaemonCloseOld
    \/ DaemonReset

SeqSpec == InitSeq /\ [][NextSeq]_vars

\* the setters called while one caller writes and the daemon accounts
SetSizeArgs == {-1, 0, 5}
SetLineArgs == {-1, 0, 2}

InitSet ==
    /\ InitWriter
    /\ Policy(FALSE, 0, 0)
    /\ callsLeft = SetCalls
    /\ fmtIn = [format |-> <<"a">>, nargs |-> 0]
    /\ fmtOut = [NoOut EXCEPT !.done = TRUE]

NextSet ==
    \/ NextSeq
    \/ \E t \in BOOLEAN : SetTimeRotated(t)
    \/ \E size \in SetSizeArgs : SetRotateSize(size)
    \/ \E lines \in SetLineArgs : SetRotateLines(lines)

SetSpec == InitSet /\ [][NextSet]_vars

\* time rotation alone or together with line rotation at 1: one caller, the
\* daemon with all its cases, and the clock
InitRot ==
    /\ InitWriter
    /\ \E l \in {0, 1} : Policy(TRUE, 0, l)
    /\ callsLeft = RotCalls
    /\ fmtIn = [format |-> <<"a">>, nargs |-> 0]
    /\ fmtOut = [NoOut EXCEPT !.done = TRUE]

NextRot ==
    \/ NextSeq
    \/ DaemonTimeTick
    \/ DaemonTimeCheck
    \/ \E ok \in BOOLEAN : DaemonTimeOpen(ok)
    \/ DayAdvance
    \/ TimeCacheRefresh

RotSpec == InitRot /\ [][NextRot]_vars

\* BLog.writef on every format string and argument count within the bounds
InitFmt ==
    /\ InitWriter
    /\ Policy(FALSE, 0, 0)
    /\ callsLeft = 0
    /\ fmtIn \in [format : Strings(MaxFmtLen), nargs : 0..MaxArgs]
    /\ fmtOut = NoOut

NextFmt == BLogWritef

FmtSpec == InitFmt /\ [][NextFmt]_vars


\* ================================================================ claims
\* the contents of the files, in the order in which they were created
RECURSIVE FilesFrom(_)
FilesFrom(i) == IF i > Len(disk) THEN <<>> ELSE disk[i].content \o FilesFrom(i + 1)
AllFiles == FilesFrom(1)

\* the bytes of record r among the bytes bs
OfRecord(bs, r) == {bs[i] : i \in {j \in 1..Len(bs) : bs[j][1] = r}}

\* byte a comes before byte b in the order of the lock acquisitions
Before(a, b) == a[1] < b[1] \/ (a[1] = b[1] /\ a[2] < b[2])

\* C1: no record is lost or duplicated across rotations: the rotated files in
\* rotation order, the active file and what the buffer still holds are
\* exactly the bytes the calls handed to the writer, in the order of the lock
\* acquisitions (stated for runs in which every os.OpenFile succeeded).
C1_NoRecordLost == ~openFailed /\ writer => AllFiles \o buf = accepted

\* C2: when Close has returned, every byte that calls which had returned
\* before Close had left in the buffer is in a file (stated for runs in which
\* every os.OpenFile succeeded).
C2_CloseFlushesBuffer ==
    (cpc = "done" /\ ~openFailed) =>
        \A i \in 1..Len(bufAtClose) :
            \E j \in 1..Len(delivered) : delivered[j] = bufAtClose[i]

\* C3: a write/writef call is never left at its deferred send with nobody to
\* take the size: a full logSizeChan whose daemon has exited blocks the call
\* for ever.
C3_WriteNeverBlocksForEver ==
    \A w \in Writers :
        (pc[w] = "defer" /\ (sizeRotated \/ lineRotated) /\ dpc = "exited")
            => Len(logSizeChan) < ChanCap

\* C4: when the os.OpenFile of a rotation fails, the previous handle stays
\* open and stays the sink of the BLog.
C4_OpenFailureKeepsOldFile ==
    /\ sink # NilFile
    /\ (dpc \in {"close", "reset"} /\ dloc.newFile = NilFile /\ file # NilFile)
           => handles[file].open

\* C5: no record is split by a sink swap: once a byte of a record is in a
\* file, every byte of the record handed to the writer is in that file or
\* still in the buffer (stated for runs in which every os.OpenFile succeeded).
C5_NoRecordSplit ==
    ~openFailed /\ writer =>
        \A r \in 1..nextRec : \A i \in 1..Len(disk) :
            OfRecord(disk[i].content, r) # {}
                => OfRecord(accepted, r) \subseteq
                       OfRecord(disk[i].content, r) \cup OfRecord(buf, r)

\* C5, first half: at most one of BLog.write, writef, flush, resetFile and
\* Close is inside blog.lock: a caller holds the lock exactly while it is
\* between its Lock and its Unlock.
C5_MutualExclusion ==
    /\ \A w \in Writers : (pc[w] \in {"prefix", "body", "eol"}) <=> (lock = w)
    /\ Cardinality({w \in Writers : pc[w] \in {"prefix", "body", "eol"}}) <= 1

\* C6: the bytes reach the files in the order in which the calls acquired
\* blog.lock: no record overtakes another, no byte arrives twice, and the
\* bytes of two records are never interleaved.
C6_SinkOrderIsLockOrder ==
    \A i \in 1..Len(delivered) : \A j \in 1..Len(delivered) :
        i < j => Before(delivered[i], delivered[j])

\* C6 witness: two callers are inside write/writef at once, and bytes of two
\* records have reached a file
C6_Witness ==
    /\ \A w \in Writers : pc[w] # "idle"
    /\ \E i \in 1..Len(delivered) : delivered[i][1] = 1
    /\ \E i \in 1..Len(delivered) : delivered[i][1] = 2

\* the size/line-only policies of C7 and C8
LineOnly == lineRotated /\ ~sizeRotated
SizeOnly == sizeRotated /\ ~lineRotated

\* C7: with line rotation at threshold L, currentLines never stays above L,
\* and with line rotation alone a rotation happens exactly at every (L+1)-th
\* accounted line, after which currentLines counts again from 0.
C7_LineRotationAboveThreshold ==
    /\ lineRotated => currentLines <= rotateLines
    /\ LineOnly => /\ rotations = accounted \div (rotateLines + 1)
                   /\ currentLines = accounted % (rotateLines + 1)

\* C7 witness: line rotation alone, a rotation has happened and lines have
\* been counted after it
C7_Witness ==
    /\ LineOnly
    /\ rotateLines = 2
    /\ rotations = 1
    /\ currentLines = 1

\* C8: with size rotation alone at threshold T and every write of s bytes, a
\* rotation happens exactly at every (T div s + 1)-th accounted write: when
\* the accumulated size exceeds T, not when it equals T, and the size is
\* accumulated again from 0.
C8_SizeRotationEveryNWrites ==
    \A s \in sizesSeen :
        (SizeOnly /\ sizesSeen = {s}) =>
            /\ rotations = accounted \div ((rotateSize \div s) + 1)
            /\ currentSize = s * (accounted % ((rotateSize \div s) + 1))

\* C8 witness: the accumulated size has been equal to T without a rotation
\* (T = 8, s = 4, two writes), and the third write has rotated
C8_Witness ==
    /\ SizeOnly
    /\ rotateSize = 8
    /\ sizesSeen = {4}
    /\ accounted = 3
    /\ rotations = 1
    /\ currentSize = 0

\* the rotation of the scenario of C9 is over: line rotation alone at 3, four
\* one-line writes accounted, the new file <base>.2 open as the active file
C9_Scenario ==
    /\ LineOnly
    /\ rotateLines = 3
    /\ accounted = 4
    /\ rotations = 1
    /\ dpc = "select"
    /\ file # NilFile
    /\ Len(disk) = 2

\* C9 as stated: after the rotation the fourth record is in the new file, the
\* first three are in the file written before, and currentLines is 1.
C9_FourthRecordInNewFile ==
    C9_Scenario =>
        /\ currentLines = 1
        /\ OfRecord(disk[2].content, 4) # {}
        /\ \A r \in 1..3 : OfRecord(disk[1].content, r) # {}

\* C9 amended: a size/line rotation happens after the record that triggers it
\* was handed to the buffer, so the file it opens holds none of the records
\* accounted up to it (with line rotation alone at L the k-th rotation's file
\* <base>.<k+1> only holds records after the k(L+1)-th), and currentLines is 0
\* right after the rotation.
C9_TriggeringRecordNotInNewFile ==
    /\ (dpc \in {"close", "reset"}) => currentLines = 0
    /\ LineOnly =>
           \A i \in 1..Len(disk) : \A j \in 1..Len(disk[i].content) :
               disk[i].name.kind = "seq"
                   => disk[i].content[j][1] > (disk[i].name.seq - 1) * (rotateLines + 1)

\* C9 witness: the scenario is complete and the new file has been written to
C9_Witness ==
    /\ C9_Scenario
    /\ currentLines = 0
    /\ nextRec = 5
    /\ disk[2].content # <<>>

\* C10: BLog.writef returns normally for every format string and argument
\* list.
C10_WritefNeverPanics == fmtOut.done => ~fmtOut.panic

\* every PLACEHOLDER of the format is escaped: it comes right after an ESCAPE
\* that is not itself escaped
EscapedOnly(format) ==
    \A i \in 1..Len(format) :
        format[i] = PLACEHOLDER =>
            /\ i > 1 /\ format[i - 1] = ESCAPE
            /\ (i > 2 => format[i - 2] # ESCAPE)

\* C11: a PLACEHOLDER right after an ESCAPE opens no placeholder and takes no
\* argument: a format whose PLACEHOLDERs are all escaped is written without
\* any argument being rendered (stated for the calls that return).
C11_EscapedPercentIsLiteral ==
    (fmtOut.done /\ ~fmtOut.panic /\ EscapedOnly(fmtIn.format)) =>
        \A j \in 1..Len(fmtOut.out) : fmtOut.out[j].k = "lit"

\* C12: Close is one-way and idempotent: closed never goes back to false, and
\* a Close called after a Close has returned returns at once: it flushes
\* nothing and changes no field of the writer or of its BLog.
C12_CloseIsIdempotent ==
    [][/\ closed => closed'
       /\ (cpc = "done" /\ cpc' # "done") =>
              /\ cpc' = "again"
              /\ UNCHANGED <<closed, blog, file, cfgVars, rotVars, logSizeChan,
                             rotateLock, writer, bufVars, sink, lock, handles,
                             panicked>>]_vars

\* C12 witness: the writer is closed and a second Close has returned
C12_Witness == closed /\ cpc = "again"

\* the file a rotation has just opened (between os.OpenFile and resetFile)
NewFileName == disk[handles[dloc.newFile].idx].name

\* C13: the file a size/line rotation opens carries the value sizeRotateTimes
\* has right after the rotation incremented it (<base>.<N>, or
\* <base>.<date>.<N> with time rotation on), so the first one carries 1.
C13_SizeFileNamedBySequence ==
    (dpc \in {"close", "reset"} /\ dloc.newFile # NilFile
        /\ NewFileName.kind \in {"seq", "dateseq"})
            => NewFileName.seq = sizeRotateTimes

\* C14: the three policies are independent: a step that changes timeRotated
\* changes nothing else of the rotation state, one that changes sizeRotated or
\* rotateSize changes neither the other two policies nor the counters nor the
\* rotation sequence, and likewise for lineRotated and rotateLines; a setter
\* called with zero or a negative value clears its flag and keeps its threshold.
C14_SettersIndependent ==
    [][/\ (timeRotated' # timeRotated) =>
              UNCHANGED <<sizeRotated, rotateSize, lineRotated, rotateLines, rotVars>>
       /\ (sizeRotated' # sizeRotated \/ rotateSize' # rotateSize) =>
              UNCHANGED <<timeRotated, lineRotated, rotateLines, rotVars>>
       /\ (lineRotated' # lineRotated \/ rotateLines' # rotateLines) =>
              UNCHANGED <<timeRotated, sizeRotated, rotateSize, rotVars>>]_vars

\* C14 witness: size rotation was set to 5 and then turned off by a value
\* that is not positive, while the counters of the line rotation stand above 0
C14_Witness ==
    /\ ~sizeRotated /\ rotateSize = 5
    /\ lineRotated /\ timeRotated
    /\ currentLines > 0 /\ currentSize > 0

\* C15: after Close has set closed the daemon comes to its end by leaving its
\* loop: it is not killed by a panic in a flush or a rotation it had begun.
C15_DaemonExitsAfterClose == closed => panicked # "daemon"

\* C16: rotateLock and blog.lock compose without deadlock: rotateLock is free
\* whenever the daemon comes to lock it (never re-entered), it is held exactly
\* while the daemon is inside a rotation, where blog.lock is taken after it,
\* and whoever holds one of the two locks is never waiting: the holder of
\* blog.lock is a caller between its Lock and its deferred Unlock, where it
\* only calls the bufio.Writer, and the daemon holding rotateLock can take
\* its next step as soon as blog.lock is free.
C16_LocksComposeWithoutDeadlock ==
    /\ (dpc \in {"tcheck", "account"}) => ~rotateLock
    /\ rotateLock <=> (dpc \in {"topen", "close", "reset"})
    /\ lock # None => pc[lock] \in {"prefix", "body", "eol"}
    /\ (Running /\ rotateLock /\ lock = None) =>
           ENABLED ((\E ok \in BOOLEAN : DaemonTimeOpen(ok)) \/ DaemonCloseOld \/ DaemonReset)

\* C16 witness: the daemon holds rotateLock and is about to take blog.lock in
\* resetFile while a caller holds blog.lock
C16_Witness == rotateLock /\ dpc = "reset" /\ lock # None /\ Running

\* C17: with time rotation on, every date change is followed by exactly one
\* time rotation: whenever the daemon has finished the test of a time tick,
\* it has begun as many time rotations as the date has advanced (none missed,
\* none twice), however the refresh of timeCache falls between the ticks.
C17_OneTimeRotationPerDateChange ==
    [][(timeRotated /\ dpc = "tcheck" /\ dpc' # "tcheck")
           => timeRotations' = now - 1]_vars

\* C18: every rotation, by time as well as by size or lines, ends with
\* currentSize = 0 and currentLines = 0; sizeRotateTimes changes only by +1
\* in a size/line rotation or to 0 in a time rotation; and the three fields
\* change only in the daemon's sections under rotateLock (the first part is
\* stated for runs in which every os.OpenFile succeeded).
C18_RotationResetsCounters ==
    [][/\ (dpc = "reset" /\ dpc' = "select" /\ ~openFailed) =>
              (currentSize' = 0 /\ currentLines' = 0)
       /\ (sizeRotateTimes' # sizeRotateTimes) =>
              \/ dpc = "account" /\ sizeRotateTimes' = sizeRotateTimes + 1
              \/ dpc = "tcheck" /\ sizeRotateTimes' = 0
       /\ (rotVars' # rotVars) => dpc \in {"tcheck", "account"}]_vars

\* C19: a rotation flushes the buffer to the old file and swaps the sink
\* before it closes the old file: while the writer is open (no Close has been
\* called) the sink of the BLog is an open file, so that no flush meets a
\* closed file (stated for runs in which every os.OpenFile succeeded).
C19_SinkIsOpenFile == (~closed /\ cpc = "idle" /\ ~openFailed) => SinkOpen

\* the format is literal text with one PLACEHOLDER at k that no verb follows,
\* so that it ends while the placeholder is open
OpenAt(format, k) ==
    /\ k \in 1..Len(format)
    /\ format[k] = PLACEHOLDER
    /\ \A j \in 1..Len(format) : j # k => format[j] = "a"

\* C20: every literal character is written once and in order: a format that
\* ends while its placeholder is open is written as it is, or without the
\* placeholder that was never resolved, then the EOL; the literal text before
\* the PLACEHOLDER is not written again by the write of format[last:]; and the
\* size returned is the number of bytes written.
C20_LiteralsWrittenOnce ==
    \A k \in 1..Len(fmtIn.format) :
        (fmtOut.done /\ ~fmtOut.panic /\ OpenAt(fmtIn.format, k)) =>
            /\ fmtOut.out \in {Lits(fmtIn.format) \o <<Lit(EOL)>>,
                               Lits(SubSeq(fmtIn.format, 1, k - 1)) \o <<Lit(EOL)>>}
            /\ fmtOut.size = Len(TimeFormat) + Len(LevelPrefix) + Len(fmtOut.out)

\* C21: no operation uses the buffer Close has released: a caller about to
\* call blog.write/writef, the daemon about to call blog.flush or
\* blog.resetFile and a Close about to call blog.Close all find
\* baseFileWriter.blog and BLog.writer non-nil.
C21_BLogNeverNilAtUse ==
    ((\E w \in Writers : pc[w] = "enter") \/ dpc \in {"flush", "reset"} \/ cpc = "blog")
        => (blog /\ writer)

\* C22: no two rotations of one writer open the same file name: every
\* os.OpenFile of a rotation that succeeds creates a file, it never finds the
\* file of an earlier rotation under its name (stated for runs in which no
\* date change has had more than one time rotation and every open succeeded).
C22_RotationOpensNewName ==
    [][(dpc \in {"topen", "account"} /\ dpc' = "close" /\ dloc'.newFile # NilFile
           /\ timeRotations' <= now' - 1 /\ ~openFailed')
           => Len(disk') = Len(disk) + 1]_vars

====
